---- MODULE Spec2Model ----
(***************************************************************************)
(* Model of run_bulk_jobs.py (the batch runner) and of the helpers of      *)
(* cs_unix_util.py it calls.  Python strings are sequences of one-character *)
(* strings, so that startswith / replace / split / strip are computed and   *)
(* not assumed.  Python's None is the one-element sequence None.            *)
(***************************************************************************)
EXTENDS Integers, Sequences, FiniteSets, TLC

\* ------------------------------------------------------------------ bounds
\* longest input file (number of lines, blank and comment lines included)
MaxLines == 2

\* ------------------------------------------------------- string literals
None == <<"None">>

CTL_DIR ==
  <<"/", "N", "A", "S", "/", "m", "i", "s", "/", "e", "s", "p", "/", "s", "c", "r", "i", "p", "t", "s", "/">>
PRAA ==
  <<"p", "r", "a", "a">>
DOT_CTL ==
  <<".", "c", "t", "l">>
DOT_SLASH ==
  <<".", "/">>
CTL_PREFIX ==
  <<"/", "N", "A", "S", "/", "m", "i", "s", "/", "e", "s", "p", "/", "s", "c", "r", "i", "p", "t", "s", "/", "p", "r", "a", "a">>
MIS_ ==
  <<"m", "i", "s", "_">>
SUFFIX_00_C ==
  <<"_", "0", "0", "_", "c">>
RUNJOB_SRG_ ==
  <<"r", "u", "n", "j", "o", "b", " ", "s", "r", "g", " ">>
RUNJOB ==
  <<"r", "u", "n", "j", "o", "b">>
PUBLISH ==
  <<"p", "u", "b", "l", "i", "s", "h">>
SRG ==
  <<"s", "r", "g">>
RUNJOB_ALL_PUBLISH_ ==
  <<"r", "u", "n", "j", "o", "b", " ", "a", "l", "l", "_", "p", "u", "b", "l", "i", "s", "h", " ">>
SUFFIX_PUBLISH ==
  <<"_", "p", "u", "b", "l", "i", "s", "h">>
SRG_DIR ==
  <<"/", "N", "A", "S", "/", "m", "i", "s", "/", "s", "r", "g", "/">>
LOGS_LOGFILE_TXT ==
  <<"'", "/", "l", "o", "g", "s", "/", "l", "o", "g", "f", "i", "l", "e", ".", "t", "x", "t">>
LowerSeq ==
  <<"a", "b", "c", "d", "e", "f", "g", "h", "i", "j", "k", "l", "m", "n", "o", "p", "q", "r", "s", "t", "u", "v", "w", "x", "y", "z">>
UpperSeq ==
  <<"A", "B", "C", "D", "E", "F", "G", "H", "I", "J", "K", "L", "M", "N", "O", "P", "Q", "R", "S", "T", "U", "V", "W", "X", "Y", "Z">>
LOGFILE_RETRIEVAL_ERROR ==
  <<"<", "L", "O", "G", "F", "I", "L", "E", " ", "R", "E", "T", "R", "I", "E", "V", "A", "L", " ", "E", "R", "R", "O", "R", ">">>

\* ------------------------------------------------------ str operations
Digits == {"0", "1", "2", "3", "4", "5", "6", "7", "8", "9"}
LowerCase ==
  {"a", "b", "c", "d", "e", "f", "g", "h", "i", "j", "k", "l", "m",
   "n", "o", "p", "q", "r", "s", "t", "u", "v", "w", "x", "y", "z"}
UpperCase ==
  {"A", "B", "C", "D", "E", "F", "G", "H", "I", "J", "K", "L", "M",
   "N", "O", "P", "Q", "R", "S", "T", "U", "V", "W", "X", "Y", "Z"}
Whitespace == {" ", "\n", "\t"}

\* sub occurs in s at position i
Matches(s, sub, i) ==
  /\ i >= 1
  /\ i + Len(sub) - 1 <= Len(s)
  /\ \A k \in 1..Len(sub) : s[i + k - 1] = sub[k]

\* str.find, 1-based; 0 when sub does not occur
find(s, sub) ==
  LET hits == {i \in 1..Len(s) : Matches(s, sub, i)}
  IN  IF hits = {} THEN 0 ELSE CHOOSE i \in hits : \A j \in hits : i <= j

startswith(s, p) == Matches(s, p, 1)

endswith(s, p) == Len(p) <= Len(s) /\ Matches(s, p, Len(s) - Len(p) + 1)

\* sub in s
str_in(sub, s) == find(s, sub) # 0

isalnum(s) ==
  /\ Len(s) > 0
  /\ \A i \in 1..Len(s) : s[i] \in Digits \cup LowerCase \cup UpperCase

\* s.split(sep), sep non-empty
RECURSIVE split(_, _)
split(s, sep) ==
  LET i == find(s, sep)
  IN  IF i = 0 THEN <<s>>
      ELSE <<SubSeq(s, 1, i - 1)>> \o split(SubSeq(s, i + Len(sep), Len(s)), sep)

\* sep.join(parts)
RECURSIVE join(_, _)
join(parts, sep) ==
  IF Len(parts) = 0 THEN <<>>
  ELSE IF Len(parts) = 1 THEN parts[1]
  ELSE parts[1] \o sep \o join(Tail(parts), sep)

\* s.replace(old, new)
replace(s, old, new) == join(split(s, old), new)

RECURSIVE lstrip(_)
lstrip(s) ==
  IF Len(s) > 0 /\ s[1] \in Whitespace THEN lstrip(Tail(s)) ELSE s

RECURSIVE rstrip(_)
rstrip(s) ==
  IF Len(s) > 0 /\ s[Len(s)] \in Whitespace THEN rstrip(SubSeq(s, 1, Len(s) - 1)) ELSE s

\* s.strip()
strip(s) == rstrip(lstrip(s))

\* s.split() : the whitespace-separated words of s
RECURSIVE split_ws(_)
split_ws(s) ==
  LET t == lstrip(s)
      ws == {i \in 1..Len(t) : t[i] \in Whitespace}
      e == IF ws = {} THEN Len(t) + 1 ELSE CHOOSE i \in ws : \A j \in ws : i <= j
  IN  IF Len(t) = 0 THEN <<>>
      ELSE <<SubSeq(t, 1, e - 1)>> \o split_ws(SubSeq(t, e, Len(t)))

Last(seq) == seq[Len(seq)]

\* --------------------------------------------------- cs_unix_util helpers
\* check_valid_line without the test for //
check_valid_line_hash_only(line) ==
  IF strip(line) = <<>> \/ startswith(line, <<"#">>)
  THEN FALSE
  ELSE TRUE

\* check_valid_line: a line is dropped when blank or commented
check_valid_line(line) ==
  IF strip(line) = <<>> \/ startswith(line, <<"#">>) \/ startswith(line, <<"/", "/">>)
  THEN FALSE
  ELSE TRUE

\* the job name get_srg_runjob_command queries the database with
srg_job_nm(job_nm) ==
  MIS_ \o split(Last(split(Last(split(job_nm, <<"/">>)), PRAA)), DOT_CTL)[1] \o SUFFIX_00_C

\* rows returned by cs_db.DataBase.mssql_query for job_nm when nrows
\* artifacts match (an exception of the query shows as no row)
mssql_query(job_nm, nrows) == [r \in 1..nrows |-> RUNJOB_SRG_ \o job_nm]

\* get_srg_runjob_command: the runjob of an SRG, None unless exactly one row
get_srg_runjob_command(job_nm, nrows) ==
  LET data == mssql_query(srg_job_nm(job_nm), nrows)
  IN  IF Len(data) > 1 THEN None
      ELSE IF Len(data) < 1 THEN None
      ELSE data[1]

\* ---------------------------------------------------------- run_bulk_jobs
\* Option 1 of scrub_line: a bare job code
scrub_option1(line) ==
  IF Len(line) = 4 /\ isalnum(line) THEN PRAA \o line \o DOT_CTL ELSE line

\* Option 2 with the extension never appended
scrub_option2_no_ext(line) ==
  LET bare == replace(line, DOT_SLASH, <<>>)
  IN  IF startswith(bare, PRAA) THEN CTL_DIR \o bare ELSE bare

\* Option 2 of scrub_line: a bare CTL file, or ./praaxxxx.ctl
scrub_option2(line) ==
  LET bare == replace(line, DOT_SLASH, <<>>)
  IN  IF startswith(bare, PRAA)
      THEN CTL_DIR \o bare \o (IF endswith(bare, DOT_CTL) THEN <<>> ELSE DOT_CTL)
      ELSE bare

\* scrub_line: (scrubbed line, skip_ctl); raised marks the uncaught
\* IndexError of line.split(...)[1][1]
scrub_line(line, nrows) ==
  LET original_line == line
      opt2 == scrub_option2(scrub_option1(line))
      parts == split(opt2, CTL_PREFIX)
  IN  IF str_in(DOT_CTL, opt2)
      THEN IF Len(parts) < 2 \/ Len(parts[2]) < 2
           THEN [line |-> original_line, skip_ctl |-> FALSE, raised |-> TRUE]
           ELSE IF parts[2][2] = "i"
                THEN LET srg == get_srg_runjob_command(opt2, nrows)
                     IN  IF srg = None \/ srg = <<>>
                         THEN [line |-> original_line, skip_ctl |-> TRUE, raised |-> FALSE]
                         ELSE [line |-> srg, skip_ctl |-> FALSE, raised |-> FALSE]
                ELSE [line |-> opt2, skip_ctl |-> FALSE, raised |-> FALSE]
      ELSE [line |-> opt2, skip_ctl |-> FALSE, raised |-> FALSE]

\* has_logfile answering yes to every command
has_logfile_always(command) == TRUE

\* has_logfile: the command is a runjob or a publish
has_logfile(command) ==
  IF \E script \in {RUNJOB, PUBLISH} : str_in(script, command) THEN TRUE ELSE FALSE

\* s.lower()
lower(s) ==
  [i \in 1..Len(s) |->
     IF \E k \in 1..Len(UpperSeq) : UpperSeq[k] = s[i]
     THEN LowerSeq[CHOOSE k \in 1..Len(UpperSeq) : UpperSeq[k] = s[i]]
     ELSE s[i]]

\* an exception raised inside get_runjob_logfile's try block
Raise == <<"Exception">>

\* get_unix_command_output: the stripped stdout of the command, "" when the
\* command printed nothing; output is what the command wrote to stdout
get_unix_command_output(output) ==
  IF output = <<>> THEN <<>> ELSE strip(output)

\* publish_to_runjob: the runjob of a publish command; exists_hyphen and
\* exists_plain are os.path.exists of the two candidate CFG files
publish_to_runjob(publish_cmd, exists_hyphen, exists_plain) ==
  LET words == split_ws(publish_cmd)
      pieces == split(lower(words[2]), <<"-">>)
  IN  IF Len(words) < 2 THEN Raise
      ELSE IF Len(pieces) # 2 THEN Raise
      ELSE IF exists_hyphen
           THEN RUNJOB_ALL_PUBLISH_ \o pieces[1] \o <<"-">> \o pieces[2] \o SUFFIX_PUBLISH
      ELSE IF exists_plain
           THEN RUNJOB_ALL_PUBLISH_ \o pieces[1] \o pieces[2] \o SUFFIX_PUBLISH
      ELSE None

\* get_runjob_logfile: the logfile of a runjob or publish command; every
\* exception ends in the sentinel.  is_prod is
\* env.current_machine_is_production_server(), output the stdout of the one
\* listing command the call runs
get_runjob_logfile(runjob_cmd, exists_hyphen, exists_plain, is_prod, output) ==
  LET cmd == IF startswith(runjob_cmd, PUBLISH)
             THEN publish_to_runjob(runjob_cmd, exists_hyphen, exists_plain)
             ELSE runjob_cmd
      words == split_ws(cmd)
      is_srg == (words[2] = SRG)
      pieces == split(words[2], <<"_">>)
      srg_parts == split(get_unix_command_output(output), SRG_DIR)
  IN  IF cmd = Raise \/ cmd = None \/ cmd = <<>> THEN LOGFILE_RETRIEVAL_ERROR
      ELSE IF Len(words) < 3 THEN LOGFILE_RETRIEVAL_ERROR
      ELSE IF is_prod /\ is_srg
           THEN IF Len(srg_parts) < 2 THEN LOGFILE_RETRIEVAL_ERROR
                ELSE SRG_DIR \o <<"'">> \o SubSeq(srg_parts[2], 1, Len(srg_parts[2]) - 1)
                       \o LOGS_LOGFILE_TXT
      ELSE IF is_prod /\ Len(pieces) < 2 THEN LOGFILE_RETRIEVAL_ERROR
      ELSE get_unix_command_output(output)

\* ------------------------------------------------------------ the inputs
L_1234 ==
  <<"1", "2", "3", "4">>
L_DOT_PRAA_1234 ==
  <<".", "/", "p", "r", "a", "a", "1", "2", "3", "4", ".", "c", "t", "l">>
L_1i34 ==
  <<"1", "i", "3", "4">>
L_LS ==
  <<"l", "s">>
L_RUNJOB ==
  <<"r", "u", "n", "j", "o", "b", " ", "a", "l", "l", "_", "x", " ", "j", "1">>
L_PUBLISH ==
  <<"p", "u", "b", "l", "i", "s", "h", " ", "R", "E", "S", "Q", "-", "1", "9", "5">>
L_CAT ==
  <<"c", "a", "t", " ", "x", ".", "c", "t", "l">>
L_COMMENT ==
  <<"#", " ", "c">>
OUT_LOG ==
  <<"/", "N", "A", "S", "/", "m", "i", "s", "/", "t", "m", "p", "/", "_", "j", "o", "b", "s", "/", "a", "l", "l", "_", "x", "/", "j", "1", ".", "l", "o", "g", "\n">>
OUT_SRG ==
  <<"/", "N", "A", "S", "/", "m", "i", "s", "/", "s", "r", "g", "/", "S", "1", "/", "\n">>

\* a line of the input file, as f.readlines() returns it
Ln(text) == text \o <<"\n">>

\* the lines an input file is made of
FileLines ==
  {Ln(L_1234), Ln(L_DOT_PRAA_1234), Ln(L_1i34), Ln(L_LS), Ln(L_RUNJOB),
   Ln(L_PUBLISH), Ln(L_CAT), Ln(L_COMMENT), Ln(<<>>)}

\* the input files: at most MaxLines lines
Files == UNION {[1..n -> FileLines] : n \in 0..MaxLines}

\* len(sys.argv) ranges over 1..MaxArgv
MaxArgv == 4

\* exit codes of a spawned shell
ExitCodes == {0, 1}

\* proc.returncode of a process that has not exited (Python's None)
NoReturncode == -1

\* number of rows the SRG query can return: none, one, several
RowCounts == {0, 1, 2}

\* what a listing command (ls ... ) can write to stdout
Outputs == {<<>>, OUT_LOG, OUT_SRG}

\* --------------------------------------------------------------- the dict
\* results_dict is the sequence of its (key, value) items in insertion order
dict_keys(d) == {d[i][1] : i \in 1..Len(d)}

\* k in d
dict_has(d, k) == k \in dict_keys(d)

\* d[k], k a key of d
dict_get(d, k) == d[CHOOSE i \in 1..Len(d) : d[i][1] = k][2]

\* d[k] = v : a new key goes last, an old key keeps its place
dict_set(d, k, v) ==
  IF dict_has(d, k)
  THEN [i \in 1..Len(d) |-> IF d[i][1] = k THEN <<k, v>> ELSE d[i]]
  ELSE Append(d, <<k, v>>)

\* list(filter(pred, seq)) for pred = check_valid_line
RECURSIVE filter_valid(_)
filter_valid(seq) ==
  IF Len(seq) = 0 THEN <<>>
  ELSE IF check_valid_line(seq[1]) THEN <<seq[1]>> \o filter_valid(Tail(seq))
  ELSE filter_valid(Tail(seq))

\* ------------------------------------------------------------- the state
VARIABLES
  pc,                 \* where __main__ is
  argv_len,           \* len(sys.argv)
  user_is_production, \* env.current_user_is_production()
  dirname_exists,     \* os.path.exists(os.path.dirname(sys.argv[1]))
  working_jira_id,    \* os.environ has WORKING_JIRA_ID
  exit_status,        \* exit status of the program once it has stopped
  file,               \* the lines of the input file
  lines,              \* lines[]
  total_lines,
  ind,                \* loop index, 1-based
  skip_ctls,          \* skip_ctl of every line scrubbed so far
  results_dict,
  failure_count,
  skipped_count,
  tasks,              \* the coroutines of run_commands_async
  procs,              \* the shells spawned, in spawn order
  completion,         \* task indices in the order the tasks finished
  result_tuples,
  machine_is_production, \* env.current_machine_is_production_server()
  report              \* the failures listed by the results overview

vars ==
  <<pc, argv_len, user_is_production, dirname_exists, working_jira_id, exit_status,
    file, lines, total_lines, ind, skip_ctls, results_dict, failure_count,
    skipped_count, tasks, procs, completion, result_tuples,
    machine_is_production, report>>

args == <<argv_len, user_is_production, dirname_exists>>
batch == <<file, lines, total_lines, skip_ctls>>
counts == <<failure_count, skipped_count>>
executor == <<tasks, procs, completion, result_tuples>>
overview == <<machine_is_production, report>>

Init ==
  /\ pc = "start"
  /\ argv_len \in 1..MaxArgv
  /\ user_is_production \in BOOLEAN
  /\ dirname_exists \in BOOLEAN
  /\ working_jira_id = FALSE
  /\ exit_status = 0
  /\ file = <<>>
  /\ lines = <<>>
  /\ total_lines = 0
  /\ ind = 1
  /\ skip_ctls = <<>>
  /\ results_dict = <<>>
  /\ failure_count = 0
  /\ skipped_count = 0
  /\ tasks = <<>>
  /\ procs = <<>>
  /\ completion = <<>>
  /\ result_tuples = <<>>
  /\ machine_is_production = FALSE
  /\ report = <<>>

\* the usage test without the service-account rule
usage_error_argc_only(argc, is_production) == argc \notin {2, 3}

\* the usage test of __main__: wrong argument count, or no jira_request
\* as a service account
usage_error(argc, is_production) ==
  LET missing_jira_id == is_production /\ argc < 3
  IN  (argc \notin {2, 3}) \/ missing_jira_id

\* the usage checks of __main__, up to "Execution begins"
CheckArguments ==
  /\ pc = "start"
  /\ IF usage_error(argv_len, user_is_production)
     THEN pc' = "exited" /\ exit_status' = 1 /\ UNCHANGED working_jira_id
     ELSE IF ~dirname_exists
     THEN pc' = "exited" /\ exit_status' = 1 /\ UNCHANGED working_jira_id
     ELSE /\ pc' = "read"
          /\ working_jira_id' = (argv_len = 3)
          /\ UNCHANGED exit_status
  /\ UNCHANGED <<args, batch, ind, results_dict, counts, executor, overview>>

\* open the file and keep its valid lines
ReadFile ==
  /\ pc = "read"
  /\ \E f \in Files :
       /\ file' = f
       /\ lines' = filter_valid(f)
       /\ total_lines' = Len(filter_valid(f))
  /\ results_dict' = <<>>
  /\ failure_count' = 0
  /\ skipped_count' = 0
  /\ ind' = 1
  /\ pc' = "scrub"
  /\ UNCHANGED <<args, working_jira_id, exit_status, skip_ctls, executor, overview>>

\* the scrub loop recording nothing for a line to skip
seed_nothing(d, line, skip_ctl) == d

\* the scrub loop records a line to skip as SKIPPED
seed_skipped(d, line, skip_ctl) ==
  IF skip_ctl THEN dict_set(d, line, "SKIPPED") ELSE d

\* one iteration of the scrub loop
ScrubLine ==
  /\ pc = "scrub"
  /\ ind <= total_lines
  /\ \E nrows \in RowCounts :
       LET scrubbed == scrub_line(strip(lines[ind]), nrows)
       IN  IF scrubbed.raised
           THEN /\ pc' = "raised"
                /\ exit_status' = 1
                /\ UNCHANGED <<lines, skip_ctls, results_dict, ind>>
           ELSE /\ lines' = [lines EXCEPT ![ind] = scrubbed.line]
                /\ skip_ctls' = Append(skip_ctls, scrubbed.skip_ctl)
                /\ results_dict' = seed_skipped(results_dict, scrubbed.line, scrubbed.skip_ctl)
                /\ ind' = ind + 1
                /\ UNCHANGED <<pc, exit_status>>
  /\ UNCHANGED <<args, working_jira_id, file, total_lines, counts, executor, overview>>

\* run_commands_async builds one coroutine per line; asyncio.run starts
NewTask(command) ==
  [state |-> "pending", command |-> command, proc |-> 0, result |-> <<>>]

RunCommandsAsync ==
  /\ pc = "scrub"
  /\ ind > total_lines
  /\ tasks' = [i \in 1..total_lines |-> NewTask(lines[i])]
  /\ procs' = <<>>
  /\ completion' = <<>>
  /\ pc' = "gather"
  /\ UNCHANGED <<args, working_jira_id, exit_status, batch, ind, results_dict, counts,
                 result_tuples, overview>>

\* the membership test extended to the commands of the earlier coroutines
already_resolved_or_seen(command, d, ts, i) ==
  dict_has(d, command) \/ \E j \in 1..(i - 1) : ts[j].command = command

\* the membership test of run_command_async, made by coroutine i
already_resolved(command, d, ts, i) == dict_has(d, command)

\* a coroutine starts only when no spawned shell is still running
may_start_one_at_a_time(ts, ps, i) ==
  /\ \A j \in 1..(i - 1) : ts[j].state # "pending"
  /\ \A p \in 1..Len(ps) : ps[p].returncode # NoReturncode

\* coroutine i may take its first step: the event loop starts the
\* coroutines of gather in list order, whatever the spawned shells do
may_start(ts, ps, i) == \A j \in 1..(i - 1) : ts[j].state # "pending"

\* the coroutine records the command it is about to run
executor_results_dict_marked(d, command) ==
  IF dict_has(d, command) THEN d ELSE dict_set(d, command, "RUNNING")

\* results_dict after a step of run_command_async: it is only read
executor_results_dict(d, command) == d

\* run_command_async up to its first suspension: the membership test, then
\* the spawn.  The event loop starts the coroutines in list order.
RunCommandAsync(i) ==
  /\ pc = "gather"
  /\ tasks[i].state = "pending"
  /\ may_start(tasks, procs, i)
  /\ IF already_resolved(tasks[i].command, results_dict, tasks, i)
     THEN /\ tasks' = [tasks EXCEPT ![i].state = "done",
                                    ![i].result = <<tasks[i].command, "SKIPPED">>]
          /\ completion' = Append(completion, i)
          /\ UNCHANGED procs
     ELSE /\ procs' = Append(procs, [command |-> tasks[i].command,
                                     returncode |-> NoReturncode])
          /\ tasks' = [tasks EXCEPT ![i].state = "running", ![i].proc = Len(procs) + 1]
          /\ UNCHANGED completion
  /\ results_dict' = executor_results_dict(results_dict, tasks[i].command)
  /\ UNCHANGED <<pc, args, working_jira_id, exit_status, batch, ind, counts,
                 result_tuples, overview>>

\* a spawned shell exits
ProcessExit(p) ==
  /\ pc = "gather"
  /\ procs[p].returncode = NoReturncode
  /\ \E code \in ExitCodes : procs' = [procs EXCEPT ![p].returncode = code]
  /\ UNCHANGED <<pc, args, working_jira_id, exit_status, batch, ind, results_dict, counts,
                 tasks, completion, result_tuples, overview>>

\* failed is left unset (None) unless the shell exited with 0
outcome_unset_on_failure(returncode) == IF returncode # 0 THEN "None" ELSE "False"

\* run_command_async after proc.wait()
outcome(returncode) == IF returncode # 0 THEN "True" ELSE "False"

\* the coroutine goes on without awaiting proc.wait()
wait_returns_at_once(proc) == TRUE

\* await proc.wait() returns once the shell has exited
wait_returns(proc) == proc.returncode # NoReturncode

ProcWaitReturns(i) ==
  /\ pc = "gather"
  /\ tasks[i].state = "running"
  /\ wait_returns(procs[tasks[i].proc])
  /\ tasks' = [tasks EXCEPT
                 ![i].state = "done",
                 ![i].result = <<tasks[i].command, outcome(procs[tasks[i].proc].returncode)>>]
  /\ completion' = Append(completion, i)
  /\ UNCHANGED <<pc, args, working_jira_id, exit_status, batch, ind, results_dict, counts,
                 procs, result_tuples, overview>>

\* the results in the order the coroutines finished
gather_as_completed(ts, order) == [i \in 1..Len(ts) |-> ts[order[i]].result]

\* asyncio.gather: the results in the order of the awaitables
gather(ts, order) == [i \in 1..Len(ts) |-> ts[i].result]

\* the join returns with the first coroutine that finishes
gather_first_completed(ts) == \E i \in 1..Len(ts) : ts[i].state = "done"

\* asyncio.gather returns when every coroutine has finished
gather_done(ts) == \A i \in 1..Len(ts) : ts[i].state = "done"

GatherReturns ==
  /\ pc = "gather"
  /\ gather_done(tasks)
  /\ result_tuples' = gather(tasks, completion)
  /\ ind' = 1
  /\ pc' = "classify"
  /\ UNCHANGED <<args, working_jira_id, exit_status, batch, results_dict, counts,
                 tasks, procs, completion, overview>>

\* one iteration of the loop over result_tuples
ClassifyResult ==
  /\ pc = "classify"
  /\ ind <= Len(result_tuples)
  /\ LET command == result_tuples[ind][1]
         failed == result_tuples[ind][2]
     IN  IF failed = "None"
         THEN /\ results_dict' = dict_set(results_dict, command, "LONGRUN")
              /\ failure_count' = failure_count + 1
              /\ UNCHANGED skipped_count
         ELSE IF failed = "SKIPPED"
         THEN /\ skipped_count' = skipped_count + 1
              /\ UNCHANGED <<results_dict, failure_count>>
         ELSE IF failed = "True"
         THEN /\ results_dict' = dict_set(results_dict, command, "FAILURE")
              /\ failure_count' = failure_count + 1
              /\ UNCHANGED skipped_count
         ELSE /\ results_dict' = dict_set(results_dict, command, "SUCCESS")
              /\ UNCHANGED counts
  /\ ind' = ind + 1
  /\ UNCHANGED <<pc, args, working_jira_id, exit_status, batch, executor, overview>>

\* the head of the results overview
ResultsOverview ==
  /\ pc = "classify"
  /\ ind > Len(result_tuples)
  /\ IF failure_count > 0
     THEN /\ pc' = "listing"
          /\ ind' = 1
          /\ machine_is_production' \in BOOLEAN
          /\ UNCHANGED exit_status
     ELSE /\ pc' = "done"
          /\ exit_status' = 0
          /\ UNCHANGED <<ind, machine_is_production>>
  /\ UNCHANGED <<args, working_jira_id, batch, results_dict, counts, executor, report>>

\* what the overview prints for one item of results_dict; logfile is None
\* when get_runjob_logfile is not called
Listed(n, k, v, logfile) == [n |-> n, k |-> k, v |-> v, logfile |-> logfile]

ListResult ==
  /\ pc = "listing"
  /\ ind <= Len(results_dict)
  /\ LET k == results_dict[ind][1]
         v == results_dict[ind][2]
     IN  IF v \in {"LONGRUN", "FAILURE"}
         THEN IF has_logfile(k)
              THEN \E exists_hyphen \in BOOLEAN, exists_plain \in BOOLEAN, output \in Outputs :
                     report' = Append(report,
                       Listed(ind, k, v,
                              get_runjob_logfile(k, exists_hyphen, exists_plain,
                                                 machine_is_production, output)))
              ELSE report' = Append(report, Listed(ind, k, v, None))
         ELSE IF v = "SKIPPED"
         THEN report' = Append(report, Listed(ind, k, v, None))
         ELSE UNCHANGED report
  /\ ind' = ind + 1
  /\ UNCHANGED <<pc, args, working_jira_id, exit_status, batch, results_dict, counts,
                 executor, machine_is_production>>

\* "Execution ends"
ExecutionEnds ==
  /\ pc = "listing"
  /\ ind > Len(results_dict)
  /\ pc' = "done"
  /\ exit_status' = 0
  /\ UNCHANGED <<args, working_jira_id, batch, ind, results_dict, counts, executor, overview>>

\* __main__ from the call of run_commands_async on
Dispatched ==
  \/ RunCommandsAsync
  \/ \E i \in 1..Len(tasks) : RunCommandAsync(i)
  \/ \E p \in 1..Len(procs) : ProcessExit(p)
  \/ \E i \in 1..Len(tasks) : ProcWaitReturns(i)
  \/ GatherReturns
  \/ ClassifyResult
  \/ ResultsOverview
  \/ ListResult
  \/ ExecutionEnds

\* __main__ from the scrub loop on
RunBatch ==
  \/ ScrubLine
  \/ Dispatched

Next ==
  \/ CheckArguments
  \/ ReadFile
  \/ RunBatch

Spec == Init /\ [][Next]_vars

\* ------------------------------------------- scrub_line on its own inputs
\* the characters job codes are drawn from
CodeChars == {"1", "i", "a", "Z"}

\* 4-character alphanumeric job codes
Codes == {<<a, b, c, d>> : a \in CodeChars, b \in CodeChars, c \in CodeChars, d \in CodeChars}

\* the five accepted spellings of job code c
RawForms(c) ==
  {c,
   PRAA \o c,
   PRAA \o c \o DOT_CTL,
   DOT_SLASH \o PRAA \o c \o DOT_CTL,
   CTL_DIR \o PRAA \o c \o DOT_CTL}

\* the lines scrub_line is applied to
ScrubInputs ==
  UNION {RawForms(c) : c \in Codes}
    \cup {DOT_SLASH \o c : c \in Codes}
    \cup {L_LS, L_RUNJOB, L_PUBLISH, L_CAT}

\* a one-line file has been read; the scrub loop is about to start
InitScrub ==
  /\ pc = "scrub"
  /\ argv_len = 2
  /\ user_is_production = FALSE
  /\ dirname_exists = TRUE
  /\ working_jira_id = FALSE
  /\ exit_status = 0
  /\ \E x \in ScrubInputs : file = <<Ln(x)>> /\ lines = <<Ln(x)>>
  /\ total_lines = 1
  /\ ind = 1
  /\ skip_ctls = <<>>
  /\ results_dict = <<>>
  /\ failure_count = 0
  /\ skipped_count = 0
  /\ tasks = <<>>
  /\ procs = <<>>
  /\ completion = <<>>
  /\ result_tuples = <<>>
  /\ machine_is_production = FALSE
  /\ report = <<>>

NextScrub == ScrubLine

SpecScrub == InitScrub /\ [][NextScrub]_vars

\* ------------------------------------ files with comments and blank lines
L_DOT_PRAA_5678 ==
  <<".", "/", "p", "r", "a", "a", "5", "6", "7", "8", ".", "c", "t", "l">>
L_SLASHES ==
  <<"/", "/", " ", "c">>

\* the lines of these files: two job spellings, a # comment, a // comment
\* and a blank line
ScenarioLines ==
  {Ln(L_1234), Ln(L_DOT_PRAA_5678), Ln(L_COMMENT), Ln(L_SLASHES), Ln(<<>>)}

\* the four-line files over these lines
ScenarioFiles ==
  {<<a, b, c, d>> : a \in ScenarioLines, b \in ScenarioLines,
                    c \in ScenarioLines, d \in ScenarioLines}

\* such a file has been read; the scrub loop is about to start
InitScenario ==
  /\ pc = "scrub"
  /\ argv_len = 2
  /\ user_is_production = FALSE
  /\ dirname_exists = TRUE
  /\ working_jira_id = FALSE
  /\ exit_status = 0
  /\ \E f \in ScenarioFiles :
       /\ file = f
       /\ lines = filter_valid(f)
       /\ total_lines = Len(filter_valid(f))
  /\ ind = 1
  /\ skip_ctls = <<>>
  /\ results_dict = <<>>
  /\ failure_count = 0
  /\ skipped_count = 0
  /\ tasks = <<>>
  /\ procs = <<>>
  /\ completion = <<>>
  /\ result_tuples = <<>>
  /\ machine_is_production = FALSE
  /\ report = <<>>

SpecScenario == InitScenario /\ [][RunBatch]_vars

\* ----------------------------------------- batches about to be dispatched
\* the batches the scrub loop hands to run_commands_async: ls, the CTL file
\* of job 1234, and the SRG job code it has excluded for want of its one
\* SRG row
DispatchBatches ==
  UNION {[1..n -> {L_LS, scrub_line(L_1234, 0).line, L_1i34}] : n \in 0..MaxLines}

\* the scrub loop is over for such a batch: every 1i34 is recorded SKIPPED
InitDispatch ==
  /\ pc = "scrub"
  /\ argv_len = 2
  /\ user_is_production = FALSE
  /\ dirname_exists = TRUE
  /\ working_jira_id = FALSE
  /\ exit_status = 0
  /\ \E b \in DispatchBatches :
       /\ file = [i \in 1..Len(b) |-> Ln(b[i])]
       /\ lines = b
       /\ total_lines = Len(b)
       /\ ind = Len(b) + 1
       /\ skip_ctls = [i \in 1..Len(b) |-> b[i] = L_1i34]
       /\ results_dict = IF \E i \in 1..Len(b) : b[i] = L_1i34
                         THEN <<<<L_1i34, "SKIPPED">>>>
                         ELSE <<>>
  /\ failure_count = 0
  /\ skipped_count = 0
  /\ tasks = <<>>
  /\ procs = <<>>
  /\ completion = <<>>
  /\ result_tuples = <<>>
  /\ machine_is_production = FALSE
  /\ report = <<>>

\* Every shell exits in the end, the event loop runs every coroutine that is
\* ready, and __main__ runs on whenever it is not suspended in asyncio.run.
FairSpec == InitDispatch /\ [][Dispatched]_vars /\ WF_vars(Dispatched)

\* ------------------------------------------------------------ vocabulary
\* run_commands_async has returned
Gathered == pc \in {"classify", "listing", "done"}

\* number of shells spawned for command c
Spawns(c) == Cardinality({p \in 1..Len(procs) : procs[p].command = c})

\* number of lines of the batch that are command c
Occurrences(c) == Cardinality({i \in 1..Len(lines) : lines[i] = c})

\* the commands scrub_line excluded
Excluded == {lines[i] : i \in {j \in 1..Len(skip_ctls) : skip_ctls[j]}}

\* the keys of a dict, in iteration order
key_list(d) == [i \in 1..Len(d) |-> d[i][1]]

\* seq without the repetitions of its elements
RECURSIVE first_appearances(_)
first_appearances(seq) ==
  IF Len(seq) = 0 THEN <<>>
  ELSE LET front == first_appearances(SubSeq(seq, 1, Len(seq) - 1))
       IN  IF \E i \in 1..(Len(seq) - 1) : seq[i] = Last(seq)
           THEN front
           ELSE Append(front, Last(seq))

\* the lines of the batch whose command is (keep = TRUE) or is not an
\* excluded one, in input order
RECURSIVE lines_where(_, _)
lines_where(n, keep) ==
  IF n = 0 THEN <<>>
  ELSE IF (lines[n] \in Excluded) = keep
       THEN Append(lines_where(n - 1, keep), lines[n])
       ELSE lines_where(n - 1, keep)

TerminalStatus == {"SUCCESS", "FAILURE", "SKIPPED", "LONGRUN"}

\* ---------------------------------------------------------------- claims
Trackable(k) == str_in(RUNJOB, k) \/ str_in(PUBLISH, k)

\* C1 (as stated): when the same canonical command occurs twice in a batch,
\* neither occurrence excluded, only the first occurrence is spawned: the
\* second is reported SKIPPED and exactly one shell is spawned for the command.
C1_SecondOccurrenceSkipped ==
  Gathered =>
    \A i \in 1..Len(lines), j \in 1..Len(lines) :
      (/\ i < j
       /\ lines[i] = lines[j]
       /\ ~skip_ctls[i]
       /\ ~skip_ctls[j]
       /\ \A k \in 1..(i - 1) : lines[k] # lines[i])
      => (result_tuples[j][2] = "SKIPPED" /\ Spawns(lines[i]) = 1)

\* C1 (amended): run_commands_async spawns one shell per occurrence of a
\* command that is no key of results_dict when dispatch begins, and reports
\* none of these occurrences SKIPPED; only the commands that are keys at
\* dispatch (the excluded lines) are reported SKIPPED and spawn nothing.
C1_EveryOccurrenceSpawned ==
  Gathered =>
    \A j \in 1..Len(lines) :
      IF lines[j] \in Excluded
      THEN result_tuples[j][2] = "SKIPPED" /\ Spawns(lines[j]) = 0
      ELSE result_tuples[j][2] # "SKIPPED" /\ Spawns(lines[j]) = Occurrences(lines[j])

\* a batch with the same command twice, neither excluded, has been run and
\* two shells were spawned for the command
C1_Witness ==
  /\ Gathered
  /\ \E i \in 1..Len(lines), j \in 1..Len(lines) :
       /\ i < j
       /\ lines[i] = lines[j]
       /\ ~skip_ctls[i]
       /\ ~skip_ctls[j]
       /\ Spawns(lines[i]) = 2

\* C2 (as stated): when the run has ended, the command of every line that
\* was not excluded is a key of results_dict exactly once, with a terminal
\* status.
C2_EveryLineHasStatus ==
  pc \in {"done", "raised"} =>
    \A i \in 1..Len(skip_ctls) :
      ~skip_ctls[i] =>
        /\ Cardinality({n \in 1..Len(results_dict) : results_dict[n][1] = lines[i]}) = 1
        /\ dict_get(results_dict, lines[i]) \in TerminalStatus

\* C3: whatever the order in which the coroutines finish, run_commands_async
\* returns as many tuples as there are commands, the i-th tuple carrying the
\* i-th command.
C3_ResultsInInputOrder ==
  Gathered =>
    /\ Len(result_tuples) = Len(lines)
    /\ \A i \in 1..Len(lines) : result_tuples[i][1] = lines[i]

\* the results are back and a later coroutine finished before an earlier one
C3_Witness ==
  /\ Gathered
  /\ \E a \in 1..Len(completion), b \in 1..Len(completion) :
       a < b /\ completion[a] > completion[b]

C5_LogPathNeverEmpty ==
  \A n \in 1..Len(report) :
    (report[n].v = "FAILURE" /\ Trackable(report[n].k))
      => (report[n].logfile # None /\ report[n].logfile # <<>>)

\* C6: get_runjob_logfile is called only for a command whose final status is
\* FAILURE or LONGRUN and which contains "runjob" or "publish".
C6_LogOnlyForTrackableFailures ==
  \A n \in 1..Len(report) :
    report[n].logfile # None =>
      /\ report[n].v \in {"FAILURE", "LONGRUN"}
      /\ Trackable(report[n].k)
      /\ dict_has(results_dict, report[n].k)
      /\ dict_get(results_dict, report[n].k) = report[n].v

\* the overview listed a failed trackable command with a logfile and a
\* failed plain command without one
C6_Witness ==
  /\ pc = "done"
  /\ \E n \in 1..Len(report), m \in 1..Len(report) :
       /\ report[n].logfile # None
       /\ report[m].v = "FAILURE"
       /\ ~Trackable(report[m].k)
       /\ report[m].logfile = None

\* C7 (as stated): scrub_line returns for every raw line; it never raises.
C7_ScrubNeverRaises == pc # "raised"

\* C8: a command scrub_line excludes is SKIPPED in results_dict from then on,
\* no shell is ever spawned for it, and no shell at all is spawned before
\* every line has been scrubbed.
C8_ExcludedNeverSpawned ==
  /\ \A i \in 1..Len(skip_ctls) :
       skip_ctls[i] =>
         /\ dict_has(results_dict, lines[i])
         /\ dict_get(results_dict, lines[i]) = "SKIPPED"
         /\ Spawns(lines[i]) = 0
  /\ procs # <<>> => Len(skip_ctls) = total_lines

\* the run has ended, a line was excluded and another one was spawned
C8_Witness ==
  /\ pc = "done"
  /\ procs # <<>>
  /\ \E i \in 1..Len(skip_ctls) : skip_ctls[i]

\* the invocation __main__ rejects
BadInvocation ==
  \/ user_is_production /\ argv_len < 3
  \/ argv_len \notin {2, 3}
  \/ ~dirname_exists

\* C9: on a rejected invocation the program goes from its start to exit
\* status 1 only: no file is read, no line scrubbed, no shell spawned.
C9_RejectedBeforeAnyCommand ==
  BadInvocation =>
    /\ pc \in {"start", "exited"}
    /\ pc = "exited" => exit_status # 0
    /\ file = <<>>
    /\ lines = <<>>
    /\ skip_ctls = <<>>
    /\ tasks = <<>>
    /\ procs = <<>>

\* a service account without jira_request was turned away
C9_Witness ==
  /\ pc = "exited"
  /\ user_is_production
  /\ argv_len = 2
  /\ dirname_exists

\* C10: the five spellings of a job code whose second character is not "i"
\* all scrub to /NAS/mis/esp/scripts/praa<code>.ctl, not excluded.
C10_EquivalentForms ==
  \A c \in Codes :
    c[2] # "i" =>
      \A f \in RawForms(c) :
        file = <<Ln(f)>> =>
          /\ pc # "raised"
          /\ ind = 2 => (lines = <<CTL_PREFIX \o c \o DOT_CTL>> /\ skip_ctls = <<FALSE>>)

\* a ./praaxxxx.ctl line has been scrubbed to the full path
C10_Witness ==
  /\ ind = 2
  /\ \E c \in Codes :
       /\ c[2] # "i"
       /\ file = <<Ln(DOT_SLASH \o PRAA \o c \o DOT_CTL)>>
       /\ lines = <<CTL_PREFIX \o c \o DOT_CTL>>

\* C11 (as stated): scrubbing is idempotent: when scrub_line turns a raw
\* line into command c without excluding it, scrub_line(c) is (c, False).
C11_ScrubIdempotent ==
  (pc = "scrub" /\ ind = 2 /\ skip_ctls = <<FALSE>>) =>
    \A nrows \in RowCounts :
      scrub_line(lines[1], nrows) =
        [line |-> lines[1], skip_ctl |-> FALSE, raised |-> FALSE]

\* a line of the file that is blank or begins with # or //
Ignored(l) ==
  \/ strip(l) = <<>>
  \/ (Len(l) >= 1 /\ l[1] = "#")
  \/ (Len(l) >= 2 /\ l[1] = "/" /\ l[2] = "/")

\* number of items of results_dict with status v
StatusCount(v) == Cardinality({n \in 1..Len(results_dict) : results_dict[n][2] = v})

\* C12: blank lines and lines beginning with # or // are dropped before the
\* scrub loop: they are not counted in total_lines, never a key of
\* results_dict, never spawned; and when the two commands that remain exit
\* with 0 and 1 the run ends with exactly one SUCCESS and one FAILURE.
C12_CommentsAndBlanksDropped ==
  /\ total_lines = Cardinality({i \in 1..Len(file) : ~Ignored(file[i])})
  /\ Len(lines) = total_lines
  /\ \A i \in 1..Len(file) :
       Ignored(file[i]) =>
         /\ ~dict_has(results_dict, strip(file[i]))
         /\ Spawns(strip(file[i])) = 0
  /\ (/\ pc = "done"
      /\ total_lines = 2
      /\ lines[1] # lines[2]
      /\ Len(procs) = 2
      /\ {procs[1].returncode, procs[2].returncode} = {0, 1})
     => (/\ Len(results_dict) = 2
         /\ StatusCount("SUCCESS") = 1
         /\ StatusCount("FAILURE") = 1)

\* the file 1234 / # c / blank / ./praa5678.ctl has been run, the first
\* command exited 0 and the second 1
C12_Witness ==
  /\ pc = "done"
  /\ file = <<Ln(L_1234), Ln(L_COMMENT), Ln(<<>>), Ln(L_DOT_PRAA_5678)>>
  /\ Len(procs) = 2
  /\ procs[1].returncode = 0
  /\ procs[2].returncode = 1
  /\ StatusCount("SUCCESS") = 1
  /\ StatusCount("FAILURE") = 1

\* C13 (as stated): after dispatch every key of results_dict is assigned at
\* most once: the result tuple the loop is about to record never targets a
\* key that already has a status.
C13_KeyWrittenOnce ==
  (/\ pc = "classify"
   /\ ind <= Len(result_tuples)
   /\ result_tuples[ind][2] # "SKIPPED")
  => ~dict_has(results_dict, result_tuples[ind][1])

\* C14 (as stated): at run end failure_count is the number of items of
\* results_dict that are FAILURE or LONGRUN, and skipped_count the number of
\* items that are SKIPPED.
C14_CountsAgree ==
  pc = "done" =>
    /\ failure_count = StatusCount("FAILURE") + StatusCount("LONGRUN")
    /\ skipped_count = StatusCount("SKIPPED")

\* a spawned shell has not exited
Running == \E p \in 1..Len(procs) : procs[p].returncode = NoReturncode

\* C15: as long as a coroutine has not finished or a spawned shell has not
\* exited, no result tuple has been handed to __main__, the counters are 0
\* and results_dict holds nothing but the SKIPPED items seeded before
\* dispatch.
C15_FanIn ==
  (Running \/ \E i \in 1..Len(tasks) : tasks[i].state # "done") =>
    /\ result_tuples = <<>>
    /\ failure_count = 0
    /\ skipped_count = 0
    /\ \A n \in 1..Len(results_dict) :
         results_dict[n][2] = "SKIPPED" /\ results_dict[n][1] \in Excluded

\* one coroutine has finished with the outcome of its shell while another
\* shell is still running
C15_Witness ==
  /\ Running
  /\ \E i \in 1..Len(tasks) :
       tasks[i].state = "done" /\ tasks[i].result[2] \in {"True", "False"}
  /\ result_tuples = <<>>

C17_NoLongrun ==
  /\ \A i \in 1..Len(tasks) : tasks[i].state = "done" => tasks[i].result[2] # "None"
  /\ \A i \in 1..Len(result_tuples) : result_tuples[i][2] # "None"
  /\ StatusCount("LONGRUN") = 0
  /\ \A n \in 1..Len(report) : report[n].v # "LONGRUN"

\* a run with a failed shell has ended and its failure was listed
C17_Witness ==
  /\ pc = "done"
  /\ \E p \in 1..Len(procs) : procs[p].returncode # 0
  /\ \E n \in 1..Len(report) : report[n].v = "FAILURE"

\* C18: once dispatched, the run reaches "Execution ends" with a status for
\* every command if every shell exits; and as long as a shell has not exited
\* the run sits in the join: nothing is classified, nothing reported.
C18_CompletionNeedsEveryProcess ==
  /\ (pc = "gather") ~>
       (pc = "done" /\ \A i \in 1..Len(lines) : dict_has(results_dict, lines[i]))
  /\ [](Running => (pc = "gather" /\ report = <<>>))

\* a batch in which every line was spawned has reached "Execution ends"
C18_Witness ==
  /\ pc = "done"
  /\ total_lines >= 1
  /\ Len(procs) = total_lines
  /\ \A i \in 1..Len(lines) : dict_has(results_dict, lines[i])

\* C19 (as stated): the outcome of a spawned command depends on its exit code
\* only: exit code 0 gives failed = False and the final status SUCCESS, any
\* other exit code gives failed = True.
C19_OutcomeByExitCode ==
  pc = "done" =>
    \A i \in 1..Len(tasks) :
      tasks[i].proc # 0 =>
        IF procs[tasks[i].proc].returncode = 0
        THEN /\ result_tuples[i] = <<lines[i], "False">>
             /\ dict_get(results_dict, lines[i]) = "SUCCESS"
        ELSE result_tuples[i] = <<lines[i], "True">>

\* the commands the executor reported SKIPPED
SkippedBy(tuples) ==
  {tuples[j][1] : j \in {k \in 1..Len(tuples) : tuples[k][2] = "SKIPPED"}}

\* C20: between the call of run_commands_async and its return results_dict
\* does not change, and the commands reported SKIPPED on return are exactly
\* its keys.
C20_ExecutorOnlyReads ==
  [][pc = "gather" =>
       /\ results_dict' = results_dict
       /\ pc' = "classify" => SkippedBy(result_tuples') = dict_keys(results_dict)]_vars

\* run_commands_async has just returned for a batch with an excluded line
\* and a spawned one
C20_Witness ==
  /\ pc = "classify"
  /\ ind = 1
  /\ results_dict # <<>>
  /\ procs # <<>>

====
